---- MODULE Spec2Model ----
(***************************************************************************)
(* Model of webui.py: the websocket connection registry, the event loop    *)
(* that owns it, broadcast_log_message, TeeLoggerStream,                   *)
(* BroadcastingHandler and attach_handler_to_all_loggers.                  *)
(*                                                                         *)
(* Text is a sequence of one-character strings.  A thread is either a      *)
(* producer thread (no asyncio loop runs on it) or the websocket loop      *)
(* thread.  Statements of a producer run one per step and interleave with  *)
(* the loop thread; code that runs on the loop thread between two awaits   *)
(* is atomic with respect to the other loop tasks.                         *)
(*                                                                         *)
(* debug() writes to sys.__stdout__, a diagnostic channel that is taken to *)
(* accept every write; it has no state in the model.                       *)
(***************************************************************************)
EXTENDS Integers, Sequences, FiniteSets, TLC

\* ------------------------------------------------------------------------
\* Bounds
\* ------------------------------------------------------------------------
MaxWrites == 2
MaxEmits == 1
MaxOps == 4

\* ------------------------------------------------------------------------
\* Text
\* ------------------------------------------------------------------------
NL == "\n"
SP == " "
Whitespace == {SP, NL}
Alphabet == {"a", SP, NL}

RECURSIVE SeqsUpTo(_)
SeqsUpTo(n) ==
    IF n = 0 THEN {<<>>}
    ELSE LET S == SeqsUpTo(n - 1)
         IN  S \cup {Append(s, ch) : s \in {x \in S : Len(x) = n - 1}, ch \in Alphabet}

\* the worked examples of the line assembler, "abc\ndef\n", "ab", "c\nd",
\* and a chunk with a blank line and a line that needs trimming, "\n a \n"
ExampleChunks ==
    { <<"a", "b", "c", NL, "d", "e", "f", NL>>, <<"a", "b">>, <<"c", NL, "d">>,
      <<NL, SP, "a", SP, NL>> }

\* every text of at most one character, and the examples
Chunks == SeqsUpTo(1) \cup ExampleChunks

RECURSIVE Concat(_)
Concat(ss) == IF ss = <<>> THEN <<>> ELSE Head(ss) \o Concat(Tail(ss))

HasNL(s) == \E i \in 1..Len(s) : s[i] = NL

\* str.split("\n"): one more segment than there are terminators
RECURSIVE SplitNL(_)
SplitNL(s) ==
    IF ~HasNL(s) THEN <<s>>
    ELSE LET i == CHOOSE k \in 1..Len(s) :
                      s[k] = NL /\ \A j \in 1..(k - 1) : s[j] # NL
         IN  <<SubSeq(s, 1, i - 1)>> \o SplitNL(SubSeq(s, i + 1, Len(s)))

RECURSIVE LStrip(_)
LStrip(s) ==
    IF s # <<>> /\ Head(s) \in Whitespace THEN LStrip(Tail(s)) ELSE s

RECURSIVE RStrip(_)
RStrip(s) ==
    IF s # <<>> /\ s[Len(s)] \in Whitespace
    THEN RStrip(SubSeq(s, 1, Len(s) - 1)) ELSE s

\* str.lstrip() in the place of str.strip()
StripLeftOnly(s) == LStrip(s)

\* str.strip()
Strip(s) == RStrip(LStrip(s))

\* ------------------------------------------------------------------------
\* Threads, connections, records
\* ------------------------------------------------------------------------
LoopThread == "loop"
Producers == {"p1"}
Threads == Producers \cup {LoopThread}
\* the threads that print through the one redirected stream at the same time
ConcWriters == {"p1", "p2"}
AllThreads == Threads \cup ConcWriters
Conns == {"c1", "c2"}

\* outcome of original_stream.write(message); original_stream.flush()
SinkOutcomes == {"ok", "write_fails", "flush_fails"}

\* log records handed to BroadcastingHandler.emit; bad: self.format raises
Records ==
    [msg : {<<"a">>, <<>>, <<"a", NL, "a">>}, bad : {FALSE}]
        \cup [msg : {<<"a">>}, bad : {TRUE}]

VARIABLES
    websocket_clients,  \* the global set of registered connections
    websocket_loop,     \* TRUE once websocket_server published the loop
    hs,                 \* websocket_handler's position, per connection
    loopQueue,          \* send tasks scheduled on the websocket loop, FIFO
    delivered,          \* per connection, the calls whose line it received
    sendFailed,         \* <<connection, call>> whose send raised
    sends,              \* the sends performed: the connection, the call, was
                        \* the connection registered then, did it succeed
    pc,                 \* per thread, the statement it is at
    loc,                \* per thread, the local variables of write/broadcast
    buffer,             \* TeeLoggerStream._buffer
    sink,               \* chunks the original stream received, in order
    written,            \* write() calls in order: the chunk, the sink's outcome
    emitted,            \* lines write() passed to broadcast_log_message
    calls,              \* one record per broadcast_log_message call
    wres,               \* per thread, how its last write()/emit() ended, and
                        \* what the sink did in it
    emits,              \* number of emit() calls so far
    lg,                 \* the logging module's loggers
    logState,           \* rewire done?, loggers known at the rewire, last record
    opHist              \* operations applied to the registry on its own

regVars == <<websocket_clients, websocket_loop, hs>>
loopVars == <<loopQueue, delivered, sendFailed, sends>>
teeVars == <<buffer, sink, written, emitted>>
logVars == <<lg, logState>>
vars == <<websocket_clients, websocket_loop, hs, loopQueue, delivered, sendFailed,
          sends, pc, loc, buffer, sink, written, emitted, calls, wres, emits,
          lg, logState, opHist>>

IdleLoc ==
    [chunk |-> <<>>, lines |-> <<>>, idx |-> 0, msg |-> <<>>, tasks |-> {},
     call |-> 0, ret |-> "none"]

\* ------------------------------------------------------------------------
\* Connection registry (websocket_clients)
\* ------------------------------------------------------------------------
\* websocket_clients.add(websocket)
\* a handler that starts reading without registering the connection
RegisterNothing(S, c) == S

Register(S, c) == S \cup {c}

\* websocket_clients.remove(websocket): set.remove raises KeyError on a
\* missing element and leaves the set as it was
Unregister(S, c) ==
    IF c \in S THEN [set |-> S \ {c}, exc |-> "none"]
    ELSE [set |-> S, exc |-> "KeyError"]

\* ------------------------------------------------------------------------
\* broadcast_log_message
\* ------------------------------------------------------------------------
\* the early return of line 47 never taken
BroadcastNeverSkips(S) == FALSE

\* line 47: "if not websocket_clients": the call returns at once
BroadcastSkips(S) == S = {}

\* lines 52-57: one coroutine object per member of websocket_clients.copy().
\* WebSocket.send is a coroutine function: calling it only creates the
\* coroutine, so the except clause of line 56 is never entered.
SendTasks(S) == S

\* the test of line 59 without its send_tasks operand
SubmitsWithoutTasks(tasks, loopRef) == loopRef

\* line 59: "if send_tasks and websocket_loop"
Submits(tasks, loopRef) == tasks # {} /\ loopRef

\* lines 61-62: asyncio.gather(*send_tasks) is evaluated on the calling
\* thread.  On the loop thread there is a running loop, and gather wraps
\* every coroutine in a task of that loop: the sends are scheduled.  On a
\* thread with no running loop gather either raises RuntimeError (no current
\* event loop) or binds the tasks to a loop that never runs: nothing is
\* scheduled on the websocket loop.  (A producer thread that runs an asyncio
\* loop of its own is outside the model.)
GatherSchedules(t) == t = LoopThread

\* line 61: asyncio.run_coroutine_threadsafe requires a coroutine object and
\* raises TypeError for the future that gather returned; future.result()
\* (line 65) is never reached.
SubmitExceptions(t) ==
    IF t = LoopThread THEN {"TypeError"} ELSE {"TypeError", "RuntimeError"}

\* an except clause that names RuntimeError alone
CaughtRuntimeErrorOnly(exc) == exc = "RuntimeError"

\* line 66: "except Exception" catches both
Caught(exc) == exc \in {"TypeError", "RuntimeError"}

\* every order in which the tasks of one gather can be queued
Orders(S) ==
    {q \in [1..Cardinality(S) -> S] : \A i, j \in 1..Cardinality(S) : q[i] = q[j] => i = j}

NewCall(t, msg) ==
    [t |-> t, msg |-> msg, loopAtCall |-> websocket_loop,
     emptyAtCall |-> websocket_clients = {}, snapped |-> FALSE, snap |-> {},
     created |-> 0, submitted |-> FALSE, scheduled |-> {}, status |-> "running"]

\* an except clause at line 101 that lets a formatting error through
EmitCaughtForwardingOnly(exc) == exc = "broadcast"

\* line 101: emit's "except Exception" catches what self.format ("format")
\* and what broadcast_log_message ("broadcast") raise
EmitCaught(exc) == exc \in {"format", "broadcast"}

\* the broadcast call id of thread t ends: normally, or raising into its
\* caller (write lets it propagate, emit catches it at line 101)
Leave(t, id, cs, raised) ==
    /\ calls' = [cs EXCEPT ![id].status = IF raised THEN "raised" ELSE "returned"]
    /\ IF loc[t].ret = "write" /\ ~raised
       THEN /\ pc' = [pc EXCEPT ![t] = "w_loop"]
            /\ loc' = [loc EXCEPT ![t] = [@ EXCEPT !.idx = @ + 1, !.msg = <<>>,
                                             !.tasks = {}, !.call = 0,
                                             !.ret = "none"]]
            /\ wres' = wres
       ELSE /\ pc' = [pc EXCEPT ![t] = "idle"]
            /\ loc' = [loc EXCEPT ![t] = IdleLoc]
            /\ wres' = [wres EXCEPT ![t].res =
                           IF loc[t].ret = "write" THEN "raised"
                           ELSE IF raised /\ ~EmitCaught("broadcast") THEN "raised"
                           ELSE "ok"]

\* lines 47-49
BCheck(t) ==
    /\ pc[t] = "b_check"
    /\ LET id == Len(calls) + 1
           cs == Append(calls, NewCall(t, loc[t].msg))
       IN  IF BroadcastSkips(websocket_clients)
           THEN Leave(t, id, cs, FALSE)
           ELSE /\ calls' = cs
                /\ pc' = [pc EXCEPT ![t] = "b_snap"]
                /\ loc' = [loc EXCEPT ![t].call = id]
                /\ wres' = wres
    /\ UNCHANGED <<regVars, loopVars, teeVars, emits, logVars, opHist>>

\* lines 52-57
BSnap(t) ==
    /\ pc[t] = "b_snap"
    /\ LET snap == websocket_clients
           tasks == SendTasks(snap)
       IN  /\ loc' = [loc EXCEPT ![t].tasks = tasks]
           /\ calls' = [calls EXCEPT ![loc[t].call] =
                           [@ EXCEPT !.snapped = TRUE, !.snap = snap,
                                     !.created = Cardinality(tasks)]]
    /\ pc' = [pc EXCEPT ![t] = "b_guard"]
    /\ UNCHANGED <<regVars, loopVars, teeVars, wres, emits, logVars, opHist>>

\* line 59
BGuard(t) ==
    /\ pc[t] = "b_guard"
    /\ IF Submits(loc[t].tasks, websocket_loop)
       THEN /\ pc' = [pc EXCEPT ![t] = "b_submit"]
            /\ UNCHANGED <<loc, calls, wres>>
       ELSE Leave(t, loc[t].call, calls, FALSE)
    /\ UNCHANGED <<regVars, loopVars, teeVars, emits, logVars, opHist>>

\* lines 60-67
BSubmit(t) ==
    /\ pc[t] = "b_submit"
    /\ \E exc \in SubmitExceptions(t), order \in Orders(loc[t].tasks) :
          LET sched == IF GatherSchedules(t) /\ exc = "TypeError"
                       THEN loc[t].tasks ELSE {}
              cs == [calls EXCEPT ![loc[t].call] =
                        [@ EXCEPT !.submitted = TRUE, !.scheduled = sched]]
          IN  /\ loopQueue' =
                    IF sched = {} THEN loopQueue
                    ELSE loopQueue \o
                         [i \in 1..Len(order) |->
                             [conn |-> order[i], call |-> loc[t].call]]
              /\ Leave(t, loc[t].call, cs, ~Caught(exc))
    /\ UNCHANGED <<regVars, delivered, sendFailed, sends, teeVars, emits, logVars,
                   opHist>>

\* ------------------------------------------------------------------------
\* TeeLoggerStream
\* ------------------------------------------------------------------------
Writers == Producers

\* the sink handed the stripped chunk
SinkForwardStripped(chunk) == Strip(chunk)

\* line 76: the chunk is handed to the original stream as it is
SinkForward(chunk) == chunk

\* line 76: the stream has the chunk unless its write raised
SinkReceives(out) == out # "write_fails"

\* a failing flush swallowed
SinkRaisesOnWriteOnly(out) == out = "write_fails"

\* lines 76-77: an exception of write or of flush leaves write()
SinkRaises(out) == out # "ok"

\* lines 75-77: original_stream.write(message); original_stream.flush()
WriteCall(t, chunk, out) ==
    /\ pc[t] = "idle"
    /\ Len(written) < MaxWrites
    /\ written' = Append(written, [chunk |-> chunk, out |-> out])
    /\ sink' = IF SinkReceives(out) THEN Append(sink, SinkForward(chunk)) ELSE sink
    /\ IF SinkRaises(out)
       THEN /\ wres' = [wres EXCEPT ![t] = [res |-> "raised", out |-> out]]
            /\ UNCHANGED <<pc, loc>>
       ELSE /\ pc' = [pc EXCEPT ![t] = "w_append"]
            /\ loc' = [loc EXCEPT ![t].chunk = chunk]
            /\ wres' = [wres EXCEPT ![t] = [res |-> "running", out |-> out]]
    /\ UNCHANGED <<regVars, loopVars, buffer, emitted, calls, emits, logVars, opHist>>

\* line 78: self._buffer += message
WAppend(t) ==
    /\ pc[t] = "w_append"
    /\ buffer' = buffer \o loc[t].chunk
    /\ pc' = [pc EXCEPT ![t] = "w_split"]
    /\ UNCHANGED <<regVars, loopVars, loc, sink, written, emitted,
                   calls, wres, emits, logVars, opHist>>

\* lines 79-80: if "\n" in self._buffer: lines = self._buffer.split("\n")
WSplit(t) ==
    /\ pc[t] = "w_split"
    /\ IF HasNL(buffer)
       THEN /\ loc' = [loc EXCEPT ![t].lines = SplitNL(buffer), ![t].idx = 1]
            /\ pc' = [pc EXCEPT ![t] = "w_loop"]
            /\ wres' = wres
       ELSE /\ loc' = [loc EXCEPT ![t] = IdleLoc]
            /\ pc' = [pc EXCEPT ![t] = "idle"]
            /\ wres' = [wres EXCEPT ![t].res = "ok"]
    /\ UNCHANGED <<regVars, loopVars, teeVars, calls, emits, logVars, opHist>>

\* lines 81-83: one iteration of "for line in lines[:-1]"; a line that is
\* not blank is stripped and passed to broadcast_log_message
WLoop(t) ==
    /\ pc[t] = "w_loop"
    /\ LET ls == loc[t].lines
           i == loc[t].idx
       IN  IF i > Len(ls) - 1
           THEN /\ pc' = [pc EXCEPT ![t] = "w_store"]
                /\ UNCHANGED <<loc, emitted>>
           ELSE IF Strip(ls[i]) # <<>>
           THEN /\ emitted' = Append(emitted, Strip(ls[i]))
                /\ loc' = [loc EXCEPT ![t].msg = Strip(ls[i]), ![t].ret = "write"]
                /\ pc' = [pc EXCEPT ![t] = "b_check"]
           ELSE /\ loc' = [loc EXCEPT ![t].idx = i + 1]
                /\ UNCHANGED <<pc, emitted>>
    /\ UNCHANGED <<regVars, loopVars, buffer, sink, written, calls,
                   wres, emits, logVars, opHist>>

\* line 84: self._buffer = lines[-1]
WStore(t) ==
    /\ pc[t] = "w_store"
    /\ buffer' = loc[t].lines[Len(loc[t].lines)]
    /\ pc' = [pc EXCEPT ![t] = "idle"]
    /\ loc' = [loc EXCEPT ![t] = IdleLoc]
    /\ wres' = [wres EXCEPT ![t].res = "ok"]
    /\ UNCHANGED <<regVars, loopVars, sink, written, emitted, calls,
                   emits, logVars, opHist>>

\* the outcomes of the sink's own flush
FlushOutcomes == {"ok", "flush_fails"}

\* a flush that drops the pending fragment
FlushBufferCleared(b) == <<>>

\* lines 86-87: flush() has no statement on self._buffer
FlushBuffer(b) == b

\* lines 92-93: close() is "pass"
CloseBuffer(b) == b

\* lines 86-87: flush() delegates to the sink's flush, whose exception
\* leaves flush()
Flush(t, out) ==
    /\ pc[t] = "idle"
    /\ buffer' = FlushBuffer(buffer)
    /\ wres' = [wres EXCEPT ![t] =
                   [res |-> IF out = "ok" THEN "flushed" ELSE "flush_raised",
                    out |-> out]]
    /\ UNCHANGED <<regVars, loopVars, pc, loc, sink, written, emitted, calls,
                   emits, logVars, opHist>>

\* lines 92-93
Close(t) ==
    /\ pc[t] = "idle"
    /\ buffer' = CloseBuffer(buffer)
    /\ wres' = [wres EXCEPT ![t] = [res |-> "closed", out |-> "close"]]
    /\ UNCHANGED <<regVars, loopVars, pc, loc, sink, written, emitted, calls,
                   emits, logVars, opHist>>

\* ------------------------------------------------------------------------
\* BroadcastingHandler
\* ------------------------------------------------------------------------
\* the formatter '%(asctime)s - %(levelname)s - %(name)s - %(message)s':
\* "T" stands for the time, level and name fields
Format(rec) == <<"T", SP, "-", SP>> \o rec.msg

\* lines 97-102: a format failure is caught by emit itself; the loop thread
\* logs only once the loop runs
EmitCall(t, rec) ==
    /\ pc[t] = "idle"
    /\ emits < MaxEmits
    /\ t = LoopThread => websocket_loop
    /\ emits' = emits + 1
    /\ IF rec.bad
       THEN /\ wres' = [wres EXCEPT ![t] =
                           [res |-> IF EmitCaught("format") THEN "ok" ELSE "raised",
                            out |-> "format_fails"]]
            /\ UNCHANGED <<pc, loc>>
       ELSE /\ pc' = [pc EXCEPT ![t] = "b_check"]
            /\ loc' = [loc EXCEPT ![t].msg = Format(rec), ![t].ret = "emit"]
            /\ wres' = [wres EXCEPT ![t] = [res |-> "running", out |-> "none"]]
    /\ UNCHANGED <<regVars, loopVars, teeVars, calls, logVars, opHist>>

\* ------------------------------------------------------------------------
\* The websocket loop thread
\* ------------------------------------------------------------------------
\* the loop runs its tasks one at a time, and none while the loop thread is
\* inside a synchronous call
\* a loop that runs handlers before websocket_server published it
LoopFreeUnpublished == pc[LoopThread] = "idle"

LoopFree == websocket_loop /\ pc[LoopThread] = "idle"

\* lines 35-37: websocket_server publishes the running loop
ServerStart ==
    /\ ~websocket_loop
    /\ websocket_loop' = TRUE
    /\ UNCHANGED <<websocket_clients, hs, loopVars, pc, loc, teeVars, calls,
                   wres, emits, logVars, opHist>>

\* lines 22-26: a connection is accepted, registered, and its handler starts
\* reading
Accept(c) ==
    /\ LoopFree
    /\ hs[c] = "none"
    /\ websocket_clients' = Register(websocket_clients, c)
    /\ hs' = [hs EXCEPT ![c] = "reading"]
    /\ UNCHANGED <<websocket_loop, loopVars, pc, loc, teeVars, calls, wres,
                   emits, logVars, opHist>>

\* the transport closes: the peer disconnects ("eof") or a read fails
\* ("error"); the handler has not run yet
Disconnect(c, cause) ==
    /\ hs[c] = "reading"
    /\ hs' = [hs EXCEPT ![c] = cause]
    /\ UNCHANGED <<websocket_clients, websocket_loop, loopVars, pc, loc, teeVars,
                   calls, wres, emits, logVars, opHist>>

\* lines 26-32: the async for ends or raises (caught at line 28), then the
\* finally clause removes the connection
HandlerFinally(c) ==
    /\ LoopFree
    /\ hs[c] \in {"eof", "error"}
    /\ LET r == Unregister(websocket_clients, c)
       IN  /\ websocket_clients' = r.set
           /\ hs' = [hs EXCEPT ![c] = IF r.exc = "none" THEN "done" ELSE "crashed"]
    /\ UNCHANGED <<websocket_loop, loopVars, pc, loc, teeVars, calls, wres,
                   emits, logVars, opHist>>

\* a transport that still takes data after its connection closed
TransportAlwaysOpen(state) == TRUE

\* line 55, ws.send: the transport takes data only while the connection is
\* open, which is while its handler is in the async for of line 26
TransportOpen(state) == state = "reading"

\* a broadcast that drops from the registry the connection whose send failed
RegistryPrunedAfterSend(S, c, good) == IF good THEN S ELSE S \ {c}

\* lines 53-67: broadcast_log_message reads websocket_clients (through a
\* copy) and has no statement that adds to or removes from it, whatever the
\* outcome of a send
RegistryAfterSend(S, c, good) == S

\* a scheduled ws.send(message) runs: it raises on a closed connection and
\* may fail on an open one
RunSend(ok) ==
    /\ LoopFree
    /\ loopQueue # <<>>
    /\ LET task == Head(loopQueue)
           good == ok /\ TransportOpen(hs[task.conn])
       IN  /\ delivered' = IF good
                           THEN [delivered EXCEPT ![task.conn] = Append(@, task.call)]
                           ELSE delivered
           /\ sendFailed' = IF good THEN sendFailed
                            ELSE sendFailed \cup {<<task.conn, task.call>>}
           /\ sends' = sends \cup {[conn |-> task.conn, call |-> task.call,
                                     member |-> task.conn \in websocket_clients,
                                     ok |-> good]}
           /\ websocket_clients' = RegistryAfterSend(websocket_clients, task.conn, good)
    /\ loopQueue' = Tail(loopQueue)
    /\ UNCHANGED <<websocket_loop, hs, pc, loc, teeVars, calls, wres, emits, logVars,
                   opHist>>

\* ------------------------------------------------------------------------
\* The registry's operations applied on their own
\* ------------------------------------------------------------------------
RegisterOp(c) ==
    /\ Len(opHist) < MaxOps
    /\ websocket_clients' = Register(websocket_clients, c)
    /\ opHist' = Append(opHist, [op |-> "register", conn |-> c, exc |-> "none",
                                 before |-> websocket_clients,
                                 after |-> Register(websocket_clients, c)])
    /\ UNCHANGED <<websocket_loop, hs, loopVars, pc, loc, teeVars, calls, wres,
                   emits, logVars>>

UnregisterOp(c) ==
    /\ Len(opHist) < MaxOps
    /\ LET r == Unregister(websocket_clients, c)
       IN  /\ websocket_clients' = r.set
           /\ opHist' = Append(opHist, [op |-> "unregister", conn |-> c,
                                        exc |-> r.exc,
                                        before |-> websocket_clients,
                                        after |-> r.set])
    /\ UNCHANGED <<websocket_loop, hs, loopVars, pc, loc, teeVars, calls, wres,
                   emits, logVars>>

\* ------------------------------------------------------------------------
\* The logging module and attach_handler_to_all_loggers
\* ------------------------------------------------------------------------
INFO == 20
Severities == {INFO - 10, INFO, INFO + 10}

Root == "root"
LoggerNames == {"a", "a.b", "a.b.c"}
Loggers == LoggerNames \cup {Root}

\* the dotted-name parent
NameParent(l) ==
    IF l = "a.b.c" THEN "a.b" ELSE IF l = "a.b" THEN "a" ELSE Root

RECURSIVE NameAncestors(_)
NameAncestors(l) ==
    IF l = Root THEN {} ELSE {NameParent(l)} \cup NameAncestors(NameParent(l))

\* an entry of Manager.loggerDict is a Logger or a PlaceHolder; a name not
\* in the dictionary is "absent"
Fresh == [kind |-> "logger", handlers |-> <<>>, level |-> 0, propagate |-> TRUE]
PlaceHolder == [kind |-> "placeholder", handlers |-> <<>>, level |-> 0, propagate |-> TRUE]
Absent == [kind |-> "absent", handlers |-> <<>>, level |-> 0, propagate |-> TRUE]

LoggerDict(g) == {l \in LoggerNames : g[l].kind # "absent"}

\* the states the logging module can be in: ancestors of a logger are in the
\* dictionary, a placeholder has a logger below it, the root is a logger
WellFormed(g) ==
    /\ g[Root].kind = "logger"
    /\ \A l \in LoggerNames :
          /\ g[l].kind = "logger" =>
                \A p \in NameAncestors(l) : g[p].kind # "absent"
          /\ g[l].kind = "placeholder" =>
                \E d \in LoggerNames : l \in NameAncestors(d) /\ g[d].kind = "logger"

LoggerConfigs ==
    [kind : {"logger"}, handlers : {<<>>, <<"old", "bh">>}, level : {0, INFO + 10},
     propagate : BOOLEAN]

LogConfigs ==
    {g \in [Loggers -> LoggerConfigs \cup {PlaceHolder, Absent}] : WellFormed(g)}

DefaultLg == [l \in Loggers |-> IF l = Root THEN Fresh ELSE Absent]

\* Logger.parent: the nearest ancestor that is a Logger
RECURSIVE LogParent(_, _)
LogParent(g, l) ==
    LET p == NameParent(l)
    IN  IF p = Root \/ g[p].kind = "logger" THEN p ELSE LogParent(g, p)

\* Logger.getEffectiveLevel
RECURSIVE EffectiveLevel(_, _)
EffectiveLevel(g, l) ==
    IF g[l].level # 0 THEN g[l].level
    ELSE IF l = Root THEN 0
    ELSE EffectiveLevel(g, LogParent(g, l))

Count(h, x) == Cardinality({i \in 1..Len(h) : h[i] = x})

\* Logger.callHandlers: how often handler x is handed the record
RECURSIVE CallHandlers(_, _, _)
CallHandlers(g, l, x) ==
    Count(g[l].handlers, x)
    + IF g[l].propagate /\ l # Root THEN CallHandlers(g, LogParent(g, l), x) ELSE 0

\* Logger.log: isEnabledFor, then handle; the number of BroadcastingHandler
\* emit calls for one record
EmitCount(g, l, sev) ==
    IF sev >= EffectiveLevel(g, l) THEN CallHandlers(g, l, "bh") ELSE 0

\* logging.getLogger(name): creates the logger, replaces a placeholder, and
\* puts placeholders in for the missing ancestors
GetLoggerIn(g, name) ==
    [l \in Loggers |->
        IF l = name /\ g[l].kind # "logger" THEN Fresh
        ELSE IF l \in NameAncestors(name) /\ g[l].kind = "absent" THEN PlaceHolder
        ELSE g[l]]

\* lines 108-109: handlers.clear()
ClearHandlers(h) == <<>>

\* Logger.addHandler under the test of line 116
AddHandler(h, x) == IF \E i \in 1..Len(h) : h[i] = x THEN h ELSE Append(h, x)

\* propagation left on
RewirePropagateKept == TRUE

\* line 119
RewirePropagate == FALSE

\* lines 105-119 for the handler bh: every name of loggerDict is turned into
\* a logger by getLogger(name), and it and the root are rewired
Rewired(g) ==
    [l \in Loggers |->
        IF l = Root \/ l \in LoggerDict(g)
        THEN [kind |-> "logger",
              handlers |-> AddHandler(ClearHandlers(g[l].handlers), "bh"),
              level |-> INFO,
              propagate |-> RewirePropagate]
        ELSE g[l]]

NoRecord == [logger |-> "none", sev |-> 0, count |-> 0]

Attach ==
    /\ ~logState.attached
    /\ lg' = Rewired(lg)
    /\ logState' = [attached |-> TRUE,
                     pre |-> {l \in Loggers : lg[l].kind = "logger"},
                     last |-> NoRecord]
    /\ UNCHANGED <<regVars, loopVars, pc, loc, teeVars, calls, wres, emits, opHist>>

GetLogger(name) ==
    /\ lg[name].kind # "logger"
    /\ lg' = GetLoggerIn(lg, name)
    /\ UNCHANGED <<regVars, loopVars, pc, loc, teeVars, calls, wres, emits,
                   logState, opHist>>

LogRecord(l, sev) ==
    /\ lg[l].kind = "logger"
    /\ logState' = [logState EXCEPT !.last =
                       [logger |-> l, sev |-> sev, count |-> EmitCount(lg, l, sev)]]
    /\ UNCHANGED <<regVars, loopVars, pc, loc, teeVars, calls, wres, emits, lg,
                   opHist>>

\* ------------------------------------------------------------------------
\* Specifications
\* ------------------------------------------------------------------------
InitCore ==
    /\ websocket_clients = {}
    /\ websocket_loop = FALSE
    /\ hs = [c \in Conns |-> "none"]
    /\ loopQueue = <<>>
    /\ delivered = [c \in Conns |-> <<>>]
    /\ sendFailed = {}
    /\ sends = {}
    /\ pc = [t \in AllThreads |-> "idle"]
    /\ loc = [t \in AllThreads |-> IdleLoc]
    /\ buffer = <<>>
    /\ sink = <<>>
    /\ written = <<>>
    /\ emitted = <<>>
    /\ calls = <<>>
    /\ wres = [t \in AllThreads |-> [res |-> "none", out |-> "none"]]
    /\ emits = 0
    /\ logState = [attached |-> FALSE, pre |-> {}, last |-> NoRecord]
    /\ opHist = <<>>

Init == InitCore /\ lg = DefaultLg

\* the broadcast path: log records emitted on a producer thread and on the
\* loop thread, while connections come and go
Next ==
    \/ \E t \in Threads, rec \in Records : EmitCall(t, rec)
    \/ \E t \in Threads : BCheck(t)
    \/ \E t \in Threads : BSnap(t)
    \/ \E t \in Threads : BGuard(t)
    \/ \E t \in Threads : BSubmit(t)
    \/ ServerStart
    \/ \E c \in Conns : Accept(c)
    \/ \E c \in Conns, cause \in {"eof", "error"} : Disconnect(c, cause)
    \/ \E c \in Conns : HandlerFinally(c)
    \/ \E ok \in BOOLEAN : RunSend(ok)

Spec == Init /\ [][Next]_vars

\* the line assembler: one producer writes chunks to a TeeLoggerStream while
\* one connection comes and goes
TeeConns == {"c1"}

NextTee ==
    \/ \E t \in Writers, chunk \in Chunks, out \in SinkOutcomes : WriteCall(t, chunk, out)
    \/ \E t \in Writers : WAppend(t)
    \/ \E t \in Writers : WSplit(t)
    \/ \E t \in Writers : WLoop(t)
    \/ \E t \in Writers : WStore(t)
    \/ \E t \in Writers, out \in FlushOutcomes : Flush(t, out)
    \/ \E t \in Writers : Close(t)
    \/ \E t \in Writers : BCheck(t)
    \/ \E t \in Writers : BSnap(t)
    \/ \E t \in Writers : BGuard(t)
    \/ \E t \in Writers : BSubmit(t)
    \/ ServerStart
    \/ \E c \in TeeConns : Accept(c)
    \/ \E c \in TeeConns, cause \in {"eof", "error"} : Disconnect(c, cause)
    \/ \E c \in TeeConns : HandlerFinally(c)

SpecTee == Init /\ [][NextTee]_vars

\* what the concurrent writers print: one whole line each time
ConcChunks == {<<"a", NL>>, <<"b", NL>>}

\* two threads write to the same stream, statement by statement; no
\* connection is registered, so every broadcast returns at line 49
NextConc ==
    \/ \E t \in ConcWriters, chunk \in ConcChunks : WriteCall(t, chunk, "ok")
    \/ \E t \in ConcWriters : WAppend(t)
    \/ \E t \in ConcWriters : WSplit(t)
    \/ \E t \in ConcWriters : WLoop(t)
    \/ \E t \in ConcWriters : WStore(t)
    \/ \E t \in ConcWriters : BCheck(t)

SpecConc == Init /\ [][NextConc]_vars

\* the registry operations, applied in any order to any connection
NextRegistry ==
    \/ \E c \in Conns : RegisterOp(c)
    \/ \E c \in Conns : UnregisterOp(c)

SpecRegistry == Init /\ [][NextRegistry]_vars

\* the logging rewire, from any state of the logging module
InitLog == InitCore /\ lg \in LogConfigs

NextLog ==
    \/ Attach
    \/ \E name \in LoggerNames : GetLogger(name)
    \/ \E l \in Loggers, sev \in Severities : LogRecord(l, sev)

SpecLog == InitLog /\ [][NextLog]_vars

\* ------------------------------------------------------------------------
\* Properties of the line assembler (SpecTee)
\* ------------------------------------------------------------------------
WrittenChunks == [i \in 1..Len(written) |-> written[i].chunk]

\* the chunks of the write() calls that the sink did not reject
RECURSIVE AcceptedOf(_)
AcceptedOf(w) ==
    IF w = <<>> THEN <<>>
    ELSE IF w[1].out = "ok" THEN <<w[1].chunk>> \o AcceptedOf(Tail(w))
    ELSE AcceptedOf(Tail(w))

AcceptedText == Concat(AcceptedOf(written))

Min(S) == CHOOSE x \in S : \A y \in S : x <= y
Max(S) == CHOOSE x \in S : \A y \in S : x >= y

\* the text between the terminator at position i and the one before it
SegmentBefore(s, i) ==
    LET prev == Max({0} \cup {j \in 1..(i - 1) : s[j] = NL})
    IN  SubSeq(s, prev + 1, i - 1)

\* a text without its leading and trailing whitespace
Trimmed(seg) ==
    LET solid == {k \in 1..Len(seg) : seg[k] \notin Whitespace}
    IN  IF solid = {} THEN <<>> ELSE SubSeq(seg, Min(solid), Max(solid))

\* the trimmed non-empty segments that precede the terminators among the
\* first n characters of s, in order
RECURSIVE LinesUpTo(_, _)
LinesUpTo(s, n) ==
    IF n = 0 THEN <<>>
    ELSE IF s[n] = NL /\ Trimmed(SegmentBefore(s, n)) # <<>>
    THEN Append(LinesUpTo(s, n - 1), Trimmed(SegmentBefore(s, n)))
    ELSE LinesUpTo(s, n - 1)

ExpectedLines(s) == LinesUpTo(s, Len(s))

\* the text after the last terminator
Remainder(s) ==
    SubSeq(s, Max({0} \cup {j \in 1..Len(s) : s[j] = NL}) + 1, Len(s))

IsPrefix(p, q) == Len(p) <= Len(q) /\ SubSeq(q, 1, Len(p)) = p

TextABC == <<"a", "b", "c">>
TextDEF == <<"d", "e", "f">>

\* C1: when the original sink accepts every write, it has received exactly
\* the chunks that were written, each unmodified and in order, so their
\* concatenation is the concatenation of the input - whatever the registry,
\* the loop handle and the sends did.
SinkReproducesInput ==
    (\A i \in 1..Len(written) : written[i].out # "write_fails")
        => /\ sink = WrittenChunks
           /\ Concat(sink) = Concat(WrittenChunks)

\* two chunks went through while a client was registered and a broadcast of
\* a line failed
SinkReproducesInputWitness ==
    /\ Len(written) = 2
    /\ \A i \in 1..2 : written[i].out = "ok"
    /\ Concat(sink) = <<NL, SP, "a", SP, NL, "a">>
    /\ \E id \in 1..Len(calls) : calls[id].submitted
    /\ websocket_clients # {}

\* C2: when the writer is not inside write(), the lines it has passed to
\* broadcast are the trimmed non-empty segments before the terminators of
\* the concatenated chunks, in order, and the buffer is the text after the
\* last terminator; while a write runs the lines emitted so far are a prefix
\* of them.  "abc\ndef\n" emits "abc","def"; "ab" then "c\nd" emits "abc"
\* and buffers "d"; chunks without a terminator emit nothing.
LinesFollowTerminators ==
    /\ IsPrefix(emitted, ExpectedLines(AcceptedText))
    /\ (\A t \in Writers : pc[t] = "idle") =>
          /\ emitted = ExpectedLines(AcceptedText)
          /\ buffer = Remainder(AcceptedText)
          /\ (AcceptedOf(written) = <<TextABC \o <<NL>> \o TextDEF \o <<NL>> >>
                 => emitted = <<TextABC, TextDEF>> /\ buffer = <<>>)
          /\ (AcceptedOf(written) = << <<"a", "b">>, <<"c", NL, "d">> >>
                 => emitted = <<TextABC>> /\ buffer = <<"d">>)
          /\ (~HasNL(AcceptedText) => emitted = <<>> /\ buffer = AcceptedText)

\* "ab" then "c\nd" were written: "abc" was emitted, "d" is buffered
LinesFollowTerminatorsWitness ==
    /\ \A t \in Writers : pc[t] = "idle"
    /\ WrittenChunks = << <<"a", "b">>, <<"c", NL, "d">> >>
    /\ \A i \in 1..2 : written[i].out = "ok"
    /\ emitted = <<TextABC>>
    /\ buffer = <<"d">>

FailedCalls == {id \in 1..Len(calls) : calls[id].submitted}

\* C10: no broadcast call raises into write(); a write in which the
\* broadcast of a line failed goes on with the lines after it, and once it
\* has returned every line of the text was emitted, the buffer holds only
\* the trailing fragment, and the sink has every chunk it did not reject.
BroadcastFailureContained ==
    /\ \A id \in 1..Len(calls) : calls[id].status # "raised"
    /\ \A t \in Writers :
          (wres[t].res = "raised" => wres[t].out # "ok")
    /\ (FailedCalls # {} /\ \A t \in Writers : pc[t] = "idle") =>
          /\ Len(emitted) = Len(ExpectedLines(AcceptedText))
          /\ Len(calls) = Len(emitted)
          /\ ~HasNL(buffer)
          /\ buffer = Remainder(AcceptedText)
          /\ Len(sink) = Cardinality({i \in 1..Len(written) : written[i].out # "write_fails"})

\* the broadcast of "abc" failed, "def" was still emitted, and the next
\* chunk still reached the sink
BroadcastFailureContainedWitness ==
    /\ \A t \in Writers : pc[t] = "idle"
    /\ Len(calls) = 2
    /\ calls[1].submitted /\ calls[1].msg = TextABC
    /\ calls[2].msg = TextDEF /\ calls[2].status = "returned"
    /\ Len(sink) = 2
    /\ sink[2] = <<"a">>
    /\ buffer = <<"a">>

\* ------------------------------------------------------------------------
\* Properties of broadcast_log_message (Spec)
\* ------------------------------------------------------------------------
Occurrences(q, x) == Cardinality({i \in 1..Len(q) : q[i] = x})

\* the send of call id to connection c ran on the loop
SendRan(c, id) == Occurrences(delivered[c], id) > 0 \/ <<c, id>> \in sendFailed

SendPending(c, id) ==
    \E i \in 1..Len(loopQueue) : loopQueue[i] = [conn |-> c, call |-> id]

\* C3: a broadcast call that found connections and has returned to its
\* caller, on whichever thread, had its sends executed on the loop.
SubmitRunsSendsBeforeReturn ==
    \A id \in 1..Len(calls) :
        (calls[id].status = "returned" /\ calls[id].snap # {})
            => \A c \in calls[id].snap : SendRan(c, id)

\* C4: a broadcast call never raises, and once it has returned every
\* connection of its snapshot whose send did not fail has received the line
\* exactly once.
BroadcastDeliversToTheOthers ==
    \A id \in 1..Len(calls) :
        /\ calls[id].status # "raised"
        /\ calls[id].status = "returned" =>
              \A c \in calls[id].snap :
                  <<c, id>> \notin sendFailed => Occurrences(delivered[c], id) = 1

\* C5: a broadcast call that found the registry empty, at its emptiness
\* test or at its snapshot, creates no send, submits nothing to the loop and
\* does not raise; the call that found it empty at the test has returned.
EmptyRegistryNoSend ==
    \A id \in 1..Len(calls) :
        (calls[id].emptyAtCall \/ (calls[id].snapped /\ calls[id].snap = {})) =>
            /\ calls[id].created = 0
            /\ ~calls[id].submitted
            /\ calls[id].scheduled = {}
            /\ calls[id].status # "raised"
            /\ calls[id].emptyAtCall =>
                  calls[id].status = "returned" /\ ~calls[id].snapped
            /\ \A c \in Conns : ~SendRan(c, id) /\ ~SendPending(c, id)

\* the registry emptied between the test of line 47 and the copy of line
\* 53, and the call returned
EmptyRegistryNoSendWitness ==
    \E id \in 1..Len(calls) :
        /\ ~calls[id].emptyAtCall
        /\ calls[id].snapped
        /\ calls[id].snap = {}
        /\ calls[id].status = "returned"
        /\ pc[calls[id].t] = "idle"

\* C6: a broadcast call made before the loop handle was published has
\* returned normally without creating or submitting a send, and its line is
\* never delivered, also not once the loop runs and clients are connected.
UnpublishedLoopDropsLine ==
    \A id \in 1..Len(calls) :
        ~calls[id].loopAtCall =>
            /\ calls[id].status = "returned"
            /\ calls[id].created = 0
            /\ ~calls[id].submitted
            /\ \A c \in Conns : ~SendRan(c, id) /\ ~SendPending(c, id)

\* the line of a call made before publication is still undelivered with the
\* loop published and a client reading
UnpublishedLoopDropsLineWitness ==
    \E id \in 1..Len(calls) :
        /\ ~calls[id].loopAtCall
        /\ calls[id].status = "returned"
        /\ websocket_loop
        /\ \E c \in websocket_clients : hs[c] = "reading" /\ delivered[c] = <<>>

\* ------------------------------------------------------------------------
\* Properties of the registry (SpecRegistry)
\* ------------------------------------------------------------------------
\* C7: unregistering a connection that is not in the registry raises no
\* error and leaves the registry unchanged.
UnregisterIdempotent ==
    \A i \in 1..Len(opHist) :
        (opHist[i].op = "unregister" /\ opHist[i].conn \notin opHist[i].before)
            => opHist[i].exc = "none" /\ opHist[i].after = opHist[i].before

\* ------------------------------------------------------------------------
\* Properties of the logging rewire (SpecLog)
\* ------------------------------------------------------------------------
\* C8: after the rewire, a record of level INFO or above logged through a
\* logger that existed before the rewire reaches BroadcastingHandler.emit
\* exactly once.
RewiredLoggerEmitsOnce ==
    (/\ logState.attached
     /\ logState.last.logger \in logState.pre
     /\ logState.last.sev >= INFO)
        => logState.last.count = 1

\* a record logged through "a.b.c", whose ancestors "a.b" and "a" carry the
\* handler too, was emitted once
RewiredLoggerEmitsOnceWitness ==
    /\ logState.attached
    /\ logState.last.logger = "a.b.c"
    /\ {"a", "a.b", "a.b.c"} \subseteq logState.pre
    /\ logState.last.sev >= INFO
    /\ logState.last.count = 1
    /\ \A l \in Loggers : lg[l].handlers = <<"bh">>

\* ------------------------------------------------------------------------
\* Properties of BroadcastingHandler.emit (Spec)
\* ------------------------------------------------------------------------
\* the thread's last call was an emit(): the sink took no part in it
LastWasEmit(t) == wres[t].res # "none" /\ wres[t].out \in {"none", "format_fails"}

\* C11: emit() never raises into the code that logged the record: not when
\* formatting the record failed, and not when the forwarded broadcast
\* failed to submit its sends; no broadcast call raises into emit().
EmitNeverRaises ==
    /\ \A t \in Threads : LastWasEmit(t) => wres[t].res # "raised"
    /\ \A id \in 1..Len(calls) : calls[id].status # "raised"

\* the formatting of a record failed and emit() returned normally
EmitNeverRaisesWitness ==
    \E t \in Threads : wres[t] = [res |-> "ok", out |-> "format_fails"]

\* ------------------------------------------------------------------------
\* Properties of the connection lifecycle (Spec)
\* ------------------------------------------------------------------------
\* C12: a connection is in the registry from before its first read until its
\* reading ended, by end of stream or by a read error; the one removal in
\* the finally clause always finds it (it never raises, so no second removal
\* was ever made), and once the handler has ended the connection is not in
\* the registry.
LifecycleRegistersOnce ==
    \A c \in Conns :
        /\ hs[c] = "none" => c \notin websocket_clients
        /\ hs[c] \in {"reading", "eof", "error"} => c \in websocket_clients
        /\ hs[c] = "done" => c \notin websocket_clients
        /\ hs[c] # "crashed"

\* one handler ended after a disconnect, the other after a read error
LifecycleRegistersOnceWitness ==
    /\ hs["c1"] = "done"
    /\ hs["c2"] = "error"
    /\ websocket_clients = {"c2"}

BroadcastStep == pc' # pc \/ calls' # calls \/ sends' # sends

\* a step of the lifecycle task of connection c, on the loop thread
LifecycleStep(c) ==
    /\ pc[LoopThread] = "idle"
    /\ hs'[c] # hs[c]
    /\ \A d \in Conns \ {c} : hs'[d] = hs[d]
    /\ websocket_clients' \in {websocket_clients \cup {c}, websocket_clients \ {c}}

\* C14: no step of a broadcast changes the registry, the step of a send
\* that fails included; the registry changes only in a step of one
\* connection's lifecycle task, which adds or removes that connection.
BroadcastLeavesRegistry ==
    [][/\ BroadcastStep => websocket_clients' = websocket_clients
       /\ websocket_clients' # websocket_clients => \E c \in Conns : LifecycleStep(c)]_vars

\* the send to a registered, open connection failed and the connection is
\* still registered
BroadcastLeavesRegistryWitness ==
    \E s \in sends :
        /\ s.member /\ ~s.ok
        /\ hs[s.conn] = "reading"
        /\ s.conn \in websocket_clients

\* ------------------------------------------------------------------------
\* Properties of the text handed to the sends (Spec)
\* ------------------------------------------------------------------------
\* a LogLine: not empty, nothing to trim at either end, no terminator inside
IsLogLine(s) == s # <<>> /\ Trimmed(s) = s /\ ~HasNL(s)

\* C15: every text for which a broadcast created a send is a LogLine,
\* whether write() extracted it or emit() formatted it.
SentTextsAreLogLines ==
    \A id \in 1..Len(calls) : calls[id].created > 0 => IsLogLine(calls[id].msg)

\* ------------------------------------------------------------------------
\* Properties of the waiting in a broadcast (Spec)
\* ------------------------------------------------------------------------
\* the send of call id to connection c has completed, well or not
SendCompleted(c, id) == \E s \in sends : s.conn = c /\ s.call = id

\* C16: while the send to some member of a call's snapshot has not
\* completed, the thread that made the call is still inside that call.
CallerBlockedUntilSendsComplete ==
    \A id \in 1..Len(calls) :
        (calls[id].snapped /\ \E c \in calls[id].snap : ~SendCompleted(c, id))
            => /\ calls[id].status = "running"
               /\ pc[calls[id].t] # "idle"
               /\ loc[calls[id].t].call = id

\* ------------------------------------------------------------------------
\* Properties of TeeLoggerStream.flush and close (SpecTee)
\* ------------------------------------------------------------------------
\* a flush() or a close() was called and ended, normally or raising
FlushOrCloseStep ==
    \E t \in Writers :
        /\ wres'[t] # wres[t]
        /\ wres'[t].res \in {"flushed", "flush_raised", "closed"}

\* C17: a flush() or a close(), after whatever writes, passes no line to
\* broadcast and leaves the partial-line buffer as it was, also when the
\* sink's flush raises.
FlushEmitsNothing ==
    [][FlushOrCloseStep =>
          /\ buffer' = buffer
          /\ emitted' = emitted
          /\ calls' = calls
          /\ \A t \in Writers : pc'[t] = "idle"]_vars

\* "ab" was written and flush() called: "ab" is still buffered, nothing was
\* emitted
FlushEmitsNothingWitness ==
    /\ WrittenChunks = << <<"a", "b">> >>
    /\ \E t \in Writers : wres[t].res = "flushed"
    /\ buffer = <<"a", "b">>
    /\ emitted = <<>>

\* ------------------------------------------------------------------------
\* Properties of concurrent writes to one TeeLoggerStream (SpecConc)
\* ------------------------------------------------------------------------
\* C18: once the writes of both threads have returned, every line that was
\* written whole was emitted exactly once, and the buffer holds only the
\* unterminated remainder, which is empty when only whole lines were
\* written.
ConcurrentLinesEmittedOnce ==
    (\A t \in ConcWriters : pc[t] = "idle") =>
        /\ \A chunk \in ConcChunks :
              Occurrences(emitted, Strip(chunk)) = Occurrences(WrittenChunks, chunk)
        /\ buffer = <<>>

\* ------------------------------------------------------------------------
\* Properties of the order of one thread's lines (SpecTee)
\* ------------------------------------------------------------------------
\* C19: a line whose broadcast a producer thread has finished was received
\* by every connection of its snapshot that is still open and registered and
\* whose send did not fail; a connection receives a thread's lines in the
\* order of the calls; and when a thread's call creates its sends, the sends
\* of the thread's earlier calls have all completed.
ProducerLinesReachInOrder ==
    /\ \A id \in 1..Len(calls) : \A c \in calls[id].snap :
          (/\ calls[id].t \in Producers
           /\ calls[id].status = "returned"
           /\ hs[c] = "reading" /\ c \in websocket_clients
           /\ <<c, id>> \notin sendFailed)
              => Occurrences(delivered[c], id) = 1
    /\ \A c \in Conns : \A i, j \in 1..Len(delivered[c]) :
          (i < j /\ calls[delivered[c][i]].t = calls[delivered[c][j]].t)
              => delivered[c][i] < delivered[c][j]
    /\ \A id, before \in 1..Len(calls) :
          (/\ before < id
           /\ calls[before].t = calls[id].t
           /\ calls[id].t \in Producers
           /\ calls[id].snapped)
              => \A c \in calls[before].snap : SendCompleted(c, before)

\* ------------------------------------------------------------------------
\* Properties of the published loop (Spec)
\* ------------------------------------------------------------------------
\* C20: whenever the registry is not empty the loop has been published; a
\* broadcast that created sends finds the loop at its test of line 59, and
\* every call that created sends and has ended went on to submit them.
RegistryImpliesLoopPublished ==
    /\ websocket_clients # {} => websocket_loop
    /\ \A t \in Threads : (pc[t] = "b_guard" /\ loc[t].tasks # {}) => websocket_loop
    /\ \A id \in 1..Len(calls) :
          (calls[id].created > 0 /\ calls[id].status # "running") => calls[id].submitted

\* a broadcast created sends for a non-empty registry and submitted them
RegistryImpliesLoopPublishedWitness ==
    /\ websocket_clients # {}
    /\ \E id \in 1..Len(calls) :
          /\ calls[id].created > 0
          /\ calls[id].submitted
          /\ calls[id].status = "returned"

====
